---- MODULE Spec2Model ----
(***************************************************************************)
(* monitor-sc: a state-machine model of src/monitor-sc.py.                 *)
(*                                                                         *)
(* One process invocation is modelled: the retention sweep of the          *)
(* automated journal (clean_old_logs), then either one automated run       *)
(* (run_auto_checks) or the interactive console (ApacheMonitor).           *)
(*                                                                         *)
(* Time is counted in days: a timestamp is the day number a record was     *)
(* written on, and timedelta(days=7) is the number 7.                      *)
(* Percentages read from psutil are integers here; every comparison of     *)
(* the code is against an integer ceiling, and the sampled values sit on   *)
(* both sides of each ceiling.                                             *)
(***************************************************************************)
EXTENDS Integers, Sequences, FiniteSets, TLC

VARIABLES
    now,            \* datetime.now(), in days
    args_auto,      \* args.auto of __main__
    pc,             \* position of the process in __main__
    auto_exists,    \* AUTO_LOG.exists()
    auto_log,       \* the lines of AUTO_LOG, in file order
    unseen,         \* the lines other processes appended to AUTO_LOG since this
                    \* process last read it
    sweep_now,      \* clean_log_file: the local now (line 136), 0 outside the call
    valid_lines,    \* clean_log_file: the local list valid_lines
    run,            \* run_auto_checks: its locals (service, active, port_open, ...)
    probes,         \* run_auto_checks: the probes it has executed, in order
    exception,      \* the uncaught exception that ended the process, "" if none
    apache_service, \* ApacheMonitor.apache_service
    error_log,      \* ApacheMonitor.error_log
    output,         \* the text the OutputPanel shows
    manual_log,     \* the lines of MANUAL_LOG, in file order
    option,         \* the menu option being handled, "" when none is
    relay,          \* the number of relay files (mkstemp) present on disk
    commands,       \* the external commands and probes the console has executed
    events          \* the number of selections and key presses handled so far

\* the locals of clean_log_file
sweep_vars == <<sweep_now, valid_lines>>
\* the locals of run_auto_checks
auto_vars == <<run, probes>>
\* the state of the interactive console
console_vars == <<apache_service, error_log, output, manual_log, option, relay,
                  commands, events>>

vars == <<now, args_auto, pc, auto_exists, auto_log, unseen, exception, sweep_vars,
          auto_vars, console_vars>>

----------------------------------------------------------------------------
(* Bounds of the model *)

\* the latest day the clock reaches
MaxTime == 9
\* pre-existing records carry a timestamp in 0..MaxStamp
MaxStamp == 2
\* the longest automated journal the process starts with
MaxLines == 2
\* the longest automated journal a console process starts with
MenuMaxLines == 1
\* the number of selections and key presses the console handles
MaxEvents == 2
MaxOthers == 1

(* Program constants *)

\* timedelta(days=7), clean_old_logs
MAX_AGE == 7
\* the hard ceiling of cpu, ram and disk
HARD_CEILING == 95
\* the soft ceiling of cpu and ram
SOFT_CEILING == 80
\* the soft ceiling of disk
DISK_SOFT_CEILING == 90
\* HTTP status codes from here on are server errors
HTTP_CRIT == 500
\* HTTP status codes from here on are client errors
HTTP_WARN == 400

\* the day the process starts on
StartTime == MaxTime - 1

SERVICES == <<"apache2", "httpd">>
None == "None"

----------------------------------------------------------------------------
(* Lines of the automated journal.                                         *)
(* A line is the text json.dumps(results) of one run, or a line that       *)
(* clean_log_file cannot process; `text` names which.                      *)

\* json.dumps(results) + "\n" of run_auto_checks
RecordLine(timestamp, checks, final_status) ==
    [text |-> "record", timestamp |-> timestamp, checks |-> checks,
     final_status |-> final_status]

\* the kinds of line that are no record written by run_auto_checks:
\*   undecodable   bytes that the text decoding of the file rejects
\*   bad_json      json.loads(line) raises
\*   no_timestamp  data["timestamp"] raises
\*   bad_iso       datetime.fromisoformat raises
\*   aware         a timestamp with a UTC offset: now - log_date raises
CorruptTexts == {"undecodable", "bad_json", "no_timestamp", "bad_iso", "aware"}

\* a line that is no record; an "aware" line still carries a timestamp
CorruptLine(t, timestamp) ==
    IF t = "aware" THEN [text |-> t, timestamp |-> timestamp] ELSE [text |-> t]

----------------------------------------------------------------------------
(* clean_log_file *)

\* line 139: iterating the text file decodes it; undecodable bytes raise
\* UnicodeDecodeError in the for statement, outside the try of line 140
Decodable(file) == \A i \in 1..Len(file) : file[i].text # "undecodable"

\* lines 141-143: whether the try body raises on this line
\* (json.loads, data["timestamp"], fromisoformat, now - log_date)
Raises(line) == line.text \in {"bad_json", "no_timestamp", "bad_iso", "aware"}

\* lines 140-146: whether the line is appended to valid_lines
IsValidLine(line, t, max_age) ==
    /\ ~Raises(line)
    /\ t - line.timestamp <= max_age

\* lines 137-146: valid_lines after the loop over the file
ValidLines(file, t, max_age) ==
    SelectSeq(file, LAMBDA line : IsValidLine(line, t, max_age))

\* a rewrite that opens the file with mode "a"
RewriteFileAppending(file, lines) == file \o lines

\* lines 147-148: open(path, "w"); f.writelines(valid_lines)
RewriteFile(file, lines) == lines

\* lines 134-146 of clean_log_file(AUTO_LOG, timedelta(days=7))
SweepRead ==
    /\ pc = "clean"
    /\ IF ~auto_exists
         THEN /\ pc' = "main"
              /\ UNCHANGED <<sweep_now, valid_lines, exception, unseen>>
         ELSE IF ~Decodable(auto_log)
         THEN /\ pc' = "crashed"
              /\ exception' = "UnicodeDecodeError"
              /\ UNCHANGED <<sweep_now, valid_lines, unseen>>
         ELSE /\ pc' = "rewrite"
              /\ sweep_now' = now
              /\ valid_lines' = ValidLines(auto_log, now, MAX_AGE)
              /\ unseen' = <<>>
              /\ UNCHANGED exception
    /\ UNCHANGED <<now, args_auto, auto_exists, auto_log, auto_vars, console_vars>>

\* lines 147-148 of clean_log_file
SweepWrite ==
    /\ pc = "rewrite"
    /\ auto_log' = RewriteFile(auto_log, valid_lines)
    /\ valid_lines' = <<>>
    /\ sweep_now' = 0
    /\ pc' = "main"
    /\ UNCHANGED <<unseen, now, args_auto, auto_exists, exception, auto_vars, console_vars>>

\* lines 132-148: the file after one uninterrupted call of clean_log_file
clean_log_file(file, t, max_age) ==
    IF ~Decodable(file) THEN file
    ELSE RewriteFile(file, ValidLines(file, t, max_age))

----------------------------------------------------------------------------
(* detect_apache *)

\* the exit statuses `systemctl status <service>` can give for the candidates
StatusCodes == [{"apache2", "httpd"} -> {0, 3}]

\* lines 89-96: the first candidate whose status query exits with 0
detect_apache(returncode) ==
    IF returncode[SERVICES[1]] = 0 THEN SERVICES[1]
    ELSE IF returncode[SERVICES[2]] = 0 THEN SERVICES[2]
    ELSE None

----------------------------------------------------------------------------
(* run_auto_checks *)

\* what `systemctl is-active` prints
ActiveOutputs == {"active", "inactive"}

\* requests.get(MONITORED_URL, timeout=5): a response with a status code, or
\* an exception (connection refused, timeout)
HttpResponse(code) == [raised |-> FALSE, code |-> code]
HttpRaised == [raised |-> TRUE, code |-> 0]
HttpOutcomes ==
    {HttpResponse(c) : c \in {200, HTTP_WARN - 1, HTTP_WARN, HTTP_CRIT - 1, HTTP_CRIT}}
        \cup {HttpRaised}

\* psutil percentages, on both sides of each ceiling
CpuSamples == {SOFT_CEILING, SOFT_CEILING + 1, HARD_CEILING, HARD_CEILING + 1}
DiskSamples == {DISK_SOFT_CEILING, DISK_SOFT_CEILING + 1, HARD_CEILING, HARD_CEILING + 1}

\* the places of run_auto_checks where an exception is not caught:
\*   detect     subprocess.run of detect_apache (line 166)
\*   service    subprocess.run of is-active (line 178)
\*   port       socket.socket / connect_ex (lines 191-192)
\*   resources  psutil (lines 214-216)
\*   journal    open / write of AUTO_LOG (lines 229-230)
FaultPoints == {"none", "detect", "service", "port", "resources", "journal"}

\* the locals of run_auto_checks before it is called
NoRun == [service |-> ""]

\* lines 176-188, with a status that keeps CRIT only for an absent service
ServiceBlockLenient(final_status, svc, active) ==
    IF svc # None THEN final_status ELSE "CRIT"

\* lines 176-188, with the else branch leaving the status alone
ServiceCheckedBlock(final_status, svc, active) ==
    IF svc # None
    THEN IF active # "active" THEN "CRIT" ELSE final_status
    ELSE final_status

\* lines 176-188: the status after the service block
ServiceBlock(final_status, svc, active) ==
    IF svc # None
    THEN IF active # "active" THEN "CRIT" ELSE final_status
    ELSE "CRIT"

\* lines 195-196: the status after the port block
PortBlock(final_status, port_open) ==
    IF ~port_open THEN "CRIT" ELSE final_status

\* lines 205-211, with the WARN branch not guarded by the present status
HttpBlockUnguarded(final_status, r) ==
    IF r.raised THEN "CRIT"
    ELSE IF r.code >= HTTP_CRIT THEN "CRIT"
    ELSE IF r.code >= HTTP_WARN THEN "WARN"
    ELSE final_status

\* lines 199-211: the status after the HTTP block
HttpBlock(final_status, r) ==
    IF r.raised THEN "CRIT"
    ELSE IF r.code >= HTTP_CRIT THEN "CRIT"
    ELSE IF r.code >= HTTP_WARN /\ final_status # "CRIT" THEN "WARN"
    ELSE final_status

\* lines 222-226, with >= in place of >
ResourceBlockInclusive(final_status, cpu, mem, disk) ==
    IF cpu >= HARD_CEILING \/ mem >= HARD_CEILING \/ disk >= HARD_CEILING
    THEN "CRIT"
    ELSE IF cpu >= SOFT_CEILING \/ mem >= SOFT_CEILING \/ disk >= DISK_SOFT_CEILING
    THEN IF final_status # "CRIT" THEN "WARN" ELSE final_status
    ELSE final_status

\* lines 222-226, with the WARN branch not guarded by the present status
ResourceBlockUnguarded(final_status, cpu, mem, disk) ==
    IF cpu > HARD_CEILING \/ mem > HARD_CEILING \/ disk > HARD_CEILING
    THEN "CRIT"
    ELSE IF cpu > SOFT_CEILING \/ mem > SOFT_CEILING \/ disk > DISK_SOFT_CEILING
    THEN "WARN"
    ELSE final_status

\* lines 222-226: the status after the resource block
ResourceBlock(final_status, cpu, mem, disk) ==
    IF cpu > HARD_CEILING \/ mem > HARD_CEILING \/ disk > HARD_CEILING
    THEN "CRIT"
    ELSE IF cpu > SOFT_CEILING \/ mem > SOFT_CEILING \/ disk > DISK_SOFT_CEILING
    THEN IF final_status # "CRIT" THEN "WARN" ELSE final_status
    ELSE final_status

\* one of the four status-update blocks, applied to the locals l
ApplyBlock(block, final_status, l) ==
    CASE block = "service"   -> ServiceBlock(final_status, l.service, l.active)
      [] block = "port"      -> PortBlock(final_status, l.port_open)
      [] block = "http"      -> HttpBlock(final_status, l.r)
      [] block = "resources" -> ResourceBlock(final_status, l.cpu, l.mem, l.disk)

\* the status after the blocks named by order, from results["final_status"] = "OK"
RECURSIVE StatusAfter(_, _)
StatusAfter(order, l) ==
    IF order = <<>> THEN "OK"
    ELSE ApplyBlock(order[Len(order)],
                    StatusAfter(SubSeq(order, 1, Len(order) - 1), l), l)

\* the order in which run_auto_checks applies its blocks
BlockOrder == <<"service", "port", "http", "resources">>

\* lines 183, 187, 194, 201-204, 210, 218-220: results["checks"]
Checks(l) ==
    [service |-> IF l.service # None THEN l.active ELSE "not_found",
     port_80 |-> IF l.port_open THEN "open" ELSE "closed",
     http    |-> IF l.r.raised THEN [error |-> "error"] ELSE [code |-> l.r.code],
     cpu     |-> l.cpu,
     ram     |-> l.mem,
     disk    |-> l.disk]

\* the probes run_auto_checks has executed when it stops at the fault point
ProbesUntil(fault) ==
    CASE fault = "detect"  -> <<>>
      [] fault = "service" -> <<"service">>
      [] fault = "port"    -> <<"service", "port">>
      [] OTHER             -> BlockOrder

\* the locals run_auto_checks has assigned when it stops at the fault point
LocalsUntil(fault, l) ==
    CASE fault = "detect"    -> NoRun
      [] fault = "service"   -> [service |-> l.service]
      [] fault = "port"      -> [service |-> l.service, active |-> l.active]
      [] fault = "resources" -> [service |-> l.service, active |-> l.active,
                                 port_open |-> l.port_open, r |-> l.r]
      [] OTHER               -> l

\* a file opened in mode "w" holds the written line and nothing else
OverwriteLine(file, line) == <<line>>

\* lines 229-230: open(AUTO_LOG, "a") and one write put the line after the
\* lines the file holds
AppendLine(file, line) == Append(file, line)

\* lines 163-230: one automated run
RunAutoChecks ==
    /\ pc = "main"
    /\ args_auto
    /\ \E returncode \in StatusCodes, active \in ActiveOutputs,
          port_open \in BOOLEAN, r \in HttpOutcomes,
          cpu \in CpuSamples, mem \in CpuSamples, disk \in DiskSamples,
          fault \in FaultPoints :
         LET timestamp == now
             svc == detect_apache(returncode)
             l == [service |-> svc,
                   active |-> IF svc # None THEN active ELSE "",
                   port_open |-> port_open, r |-> r,
                   cpu |-> cpu, mem |-> mem, disk |-> disk]
             final_status == StatusAfter(BlockOrder, l)
         IN  /\ svc = None => active = "active" /\ fault # "service"
             /\ probes' = ProbesUntil(fault)
             /\ run' = LocalsUntil(fault, l)
             /\ IF fault = "none"
                  THEN /\ auto_log' = AppendLine(auto_log,
                                                 RecordLine(timestamp, Checks(l), final_status))
                       /\ auto_exists' = TRUE
                       /\ pc' = "done"
                       /\ UNCHANGED exception
                  ELSE /\ UNCHANGED <<auto_log, auto_exists>>
                       /\ pc' = "crashed"
                       /\ exception' = fault
    /\ UNCHANGED <<unseen, now, args_auto, sweep_vars, console_vars>>

----------------------------------------------------------------------------
(* The interactive console (ApacheMonitor) *)

\* lines 267-275: the entries of the menu
MenuItems ==
    {"Estado del servicio", "Reload Apache", "Restart Apache", "Uptime",
     "Puertos escuchando", "Uso de disco", "Logs (error.log)", "Recursos y HTTP",
     "Salir"}

\* the options handle_option serves through run_sudo (lines 307-312, 315-316)
SudoOptions == {"Reload Apache", "Restart Apache", "Puertos escuchando"}

\* a fixed text
Text(t) == [text |-> t]

\* the combined output of a command that exited with the status
CmdOutput(cmd, status) == [text |-> "output", cmd |-> cmd, status |-> status]

\* lines 324-336: the text of the resources and HTTP snapshot
Snapshot(r, cpu, mem, disk) ==
    [text |-> "snapshot", http |-> r, cpu |-> cpu, ram |-> mem, disk |-> disk]

\* the percentages sampled for the snapshot
SnapshotSamples == {SOFT_CEILING, HARD_CEILING + 1}

\* the exit statuses of a command
ExitStatuses == {0, 1}

\* the error logs of LOG_PATHS (lines 47-50), in order
ErrorLogs == <<"/var/log/apache2/error.log", "/var/log/httpd/error_log">>

\* lines 100-103: the first error log that exists
detect_logs(exists) ==
    IF exists[1] THEN ErrorLogs[1]
    ELSE IF exists[2] THEN ErrorLogs[2]
    ELSE None

\* the command an option runs
CommandOf(opt) ==
    CASE opt = "Estado del servicio" -> "systemctl status"
      [] opt = "Reload Apache"       -> "systemctl reload"
      [] opt = "Restart Apache"      -> "systemctl restart"
      [] opt = "Uptime"              -> "systemctl show"
      [] opt = "Puertos escuchando"  -> "ss -lntp"
      [] opt = "Uso de disco"        -> "df -h"
      [] opt = "Logs (error.log)"    -> "tail -n 30"

\* a command executed through run_cmd or run_sudo, or a probe
Ran(via, cmd, status) == [via |-> via, cmd |-> cmd, status |-> status]

\* lines 282-288: on_mount
Mount ==
    /\ pc = "main"
    /\ ~args_auto
    /\ \E returncode \in StatusCodes, exists \in [1..2 -> BOOLEAN] :
         /\ apache_service' = detect_apache(returncode)
         /\ error_log' = detect_logs(exists)
         /\ output' = IF detect_apache(returncode) = None
                        THEN Text("Apache no detectado")
                        ELSE Text("Servicio detectado")
    /\ pc' = "idle"
    /\ UNCHANGED <<unseen, now, args_auto, auto_exists, auto_log, exception, sweep_vars,
                   auto_vars, manual_log, option, relay, commands, events>>

\* lines 156-158: the line write_manual_log appends
ManualLine(t, action) == [timestamp |-> t, action |-> action]

\* a log the selection leaves as it was
write_nothing(log, t, action) == log

\* a log that takes the new line before the lines it holds
write_first(log, t, action) == <<ManualLine(t, action)>> \o log

\* lines 154-158: write_manual_log appends one line to MANUAL_LOG (mode "a")
write_manual_log(log, t, action) == Append(log, ManualLine(t, action))

\* a comparison with a label the menu does not hold
IsExitUnlabelled(selected) == selected = "Exit"

\* line 293: if option == "Salir"
IsExit(selected) == selected = "Salir"

\* a guard that lets every selection through
NeverUnavailable(service) == FALSE

\* line 300: if not self.apache_service
Unavailable(service) == service = None

\* lines 290-303: a selection of the menu, up to the action it dispatches
Select(selected) ==
    /\ pc = "idle"
    /\ events < MaxEvents
    /\ events' = events + 1
    /\ IF IsExit(selected)
         THEN /\ pc' = "exited"
              /\ UNCHANGED <<output, manual_log, option, exception>>
         ELSE IF Unavailable(apache_service)
         THEN /\ output' = Text("Apache no disponible")
              /\ UNCHANGED <<pc, manual_log, option, exception>>
         ELSE \E written \in BOOLEAN :
                IF written
                THEN /\ manual_log' = write_manual_log(manual_log, now, selected)
                     /\ option' = selected
                     /\ pc' = "dispatching"
                     /\ UNCHANGED <<output, exception>>
                ELSE /\ pc' = "crashed"
                     /\ exception' = "OSError"
                     /\ UNCHANGED <<output, manual_log, option>>
    /\ UNCHANGED <<unseen, now, args_auto, auto_exists, auto_log, sweep_vars, auto_vars,
                   apache_service, error_log, relay, commands>>

\* lines 305-306, 313-314, 317-337: the options served without run_sudo
Execute ==
    /\ pc = "dispatching"
    /\ option \notin SudoOptions
    /\ \/ /\ option \in {"Estado del servicio", "Uptime", "Uso de disco"}
                \/ (option = "Logs (error.log)" /\ error_log # None)
          /\ \E status \in ExitStatuses :
               /\ output' = CmdOutput(CommandOf(option), status)
               /\ commands' = Append(commands, Ran("run_cmd", CommandOf(option), status))
          /\ pc' = "idle"
          /\ UNCHANGED exception
       \/ /\ option = "Logs (error.log)"
          /\ error_log = None
          /\ output' = Text("No se encontro error.log")
          /\ pc' = "idle"
          /\ UNCHANGED <<commands, exception>>
       \/ /\ option = "Recursos y HTTP"
          /\ \E r \in {HttpResponse(200), HttpRaised},
                cpu \in SnapshotSamples, mem \in SnapshotSamples,
                disk \in SnapshotSamples, sampled \in BOOLEAN :
               IF sampled
               THEN /\ output' = Snapshot(r, cpu, mem, disk)
                    /\ commands' = commands \o <<Ran("requests", "GET", 0),
                                                  Ran("psutil", "sample", 0)>>
                    /\ pc' = "idle"
                    /\ UNCHANGED exception
               ELSE /\ commands' = commands \o <<Ran("requests", "GET", 0),
                                                  Ran("psutil", "sample", 1)>>
                    /\ pc' = "crashed"
                    /\ exception' = "psutil"
                    /\ UNCHANGED output
    /\ option' = ""
    /\ UNCHANGED <<unseen, now, args_auto, auto_exists, auto_log, sweep_vars, auto_vars,
                   apache_service, error_log, manual_log, relay, events>>

\* the places of lines 110-113 where an exception leaves run_sudo
PrepareFaults == {"none", "write", "chmod"}

\* lines 110-117 of run_sudo: the relay file is created, written and made
\* executable; an exception of the write or of chmod leaves run_sudo before
\* the try of line 119
SudoPrepare ==
    /\ pc = "dispatching"
    /\ option \in SudoOptions
    /\ relay' = relay + 1
    /\ \E fault \in PrepareFaults :
         IF fault = "none"
         THEN /\ pc' = "sudo"
              /\ UNCHANGED <<option, exception>>
         ELSE /\ pc' = "crashed"
              /\ exception' = "OSError"
              /\ option' = ""
    /\ UNCHANGED <<unseen, now, args_auto, auto_exists, auto_log, sweep_vars, auto_vars,
                   apache_service, error_log, output, manual_log, commands, events>>

\* a run_sudo that leaves the relay file where it is
KeepRelay(files, returned) == files

\* lines 126-127: finally: os.remove(path), whether check_output returned
RemoveRelay(files, returned) == files - 1

\* a call that returns whatever the exit status of the command
ReturnsUnchecked(launched, status) == launched

\* lines 119-125: check_output returns when sudo was launched and exited
\* with 0, and raises otherwise
check_output_returns(launched, status) == launched /\ status = 0

\* lines 309, 312, 316: what handle_option returns after run_sudo returned
SudoResult(selected) ==
    CASE selected = "Reload Apache" -> Text("Apache recargado")
      [] selected = "Restart Apache" -> Text("Apache reiniciado")
      [] OTHER -> CmdOutput(CommandOf(selected), 0)

\* lines 119-127 of run_sudo and what handle_option does with its result
\* (lines 308-309, 311-312, 316)
SudoExecute ==
    /\ pc = "sudo"
    /\ \E launched \in BOOLEAN, status \in ExitStatuses :
         \* check_output returns when sudo was launched and exited with 0,
         \* raises CalledProcessError on another status, and the exception
         \* of the launch when sudo cannot be launched
         /\ relay' = RemoveRelay(relay, check_output_returns(launched, status))
         /\ commands' = IF ~launched THEN commands
                          ELSE Append(commands, Ran("run_sudo", CommandOf(option), status))
         /\ IF check_output_returns(launched, status)
              THEN /\ output' = SudoResult(option)
                   /\ pc' = "idle"
                   /\ UNCHANGED exception
              ELSE /\ pc' = "crashed"
                   /\ exception' = IF launched THEN "CalledProcessError"
                                     ELSE "FileNotFoundError"
                   /\ UNCHANGED output
    /\ option' = ""
    /\ UNCHANGED <<unseen, now, args_auto, auto_exists, auto_log, sweep_vars, auto_vars,
                   apache_service, error_log, manual_log, events>>

\* a refresh served as the menu serves "Estado del servicio": the query of
\* the status after a line of the action log
RefreshThroughMenu ==
    /\ pc = "idle"
    /\ events < MaxEvents
    /\ events' = events + 1
    /\ IF apache_service # None
         THEN \E status \in ExitStatuses :
                /\ output' = CmdOutput("systemctl status", status)
                /\ commands' = Append(commands, Ran("run_cmd", "systemctl status", status))
                /\ manual_log' = write_manual_log(manual_log, now, "Estado del servicio")
         ELSE /\ output' = Text("Apache no disponible")
              /\ UNCHANGED <<commands, manual_log>>
    /\ UNCHANGED <<unseen, now, args_auto, pc, auto_exists, auto_log, exception, sweep_vars,
                   auto_vars, apache_service, error_log, option, relay>>

\* lines 339-344: action_refresh, bound to the key r (line 253)
Refresh ==
    /\ pc = "idle"
    /\ events < MaxEvents
    /\ events' = events + 1
    /\ IF apache_service # None
         THEN \E status \in ExitStatuses :
                /\ output' = CmdOutput("systemctl status", status)
                /\ commands' = Append(commands, Ran("run_cmd", "systemctl status", status))
         ELSE /\ output' = Text("Apache no disponible")
              /\ UNCHANGED commands
    /\ UNCHANGED <<unseen, now, args_auto, pc, auto_exists, auto_log, exception, sweep_vars,
                   auto_vars, apache_service, error_log, manual_log, option, relay>>

\* line 253: the key q, bound to the quit action of the App
Quit ==
    /\ pc = "idle"
    /\ pc' = "exited"
    /\ UNCHANGED <<unseen, now, args_auto, auto_exists, auto_log, exception, sweep_vars,
                   auto_vars, console_vars>>

----------------------------------------------------------------------------
(* Another process on the same journal *)

\* a record of an earlier run, with every probe nominal
OldChecks ==
    [service |-> "active", port_80 |-> "open", http |-> [code |-> 200],
     cpu |-> SOFT_CEILING, ram |-> SOFT_CEILING, disk |-> DISK_SOFT_CEILING]

\* lines 229-230 in another process started with --auto: its record reaches
\* AUTO_LOG while this process is anywhere between its start and its end; no
\* lock orders the two processes
OtherAppend ==
    /\ pc \in {"clean", "rewrite", "main"}
    /\ Len(unseen) < MaxOthers
    /\ LET line == RecordLine(now, OldChecks, "OK")
       IN  /\ auto_log' = AppendLine(auto_log, line)
           /\ unseen' = Append(unseen, line)
    /\ auto_exists' = TRUE
    /\ UNCHANGED <<now, args_auto, pc, exception, sweep_vars, auto_vars, console_vars>>

----------------------------------------------------------------------------
(* the clock *)

Tick ==
    /\ now < MaxTime
    /\ pc \notin {"done", "crashed", "exited"}
    /\ now' = now + 1
    /\ UNCHANGED <<args_auto, pc, auto_exists, auto_log, unseen, exception,
                   sweep_vars, auto_vars, console_vars>>

----------------------------------------------------------------------------
(* the process *)

\* the lines the journal may hold when the process starts
OldLines ==
    {RecordLine(t, OldChecks, "OK") : t \in 0..MaxStamp}
        \cup {CorruptLine(c, t) : c \in CorruptTexts, t \in 0..MaxStamp}

Journals == UNION {[1..n -> OldLines] : n \in 0..MaxLines}

Init ==
    /\ now = StartTime
    /\ args_auto \in BOOLEAN
    /\ pc = "clean"
    /\ auto_exists \in BOOLEAN
    /\ auto_log \in Journals
    /\ ~auto_exists => auto_log = <<>>
    /\ sweep_now = 0
    /\ unseen = <<>>
    /\ valid_lines = <<>>
    /\ run = NoRun
    /\ probes = <<>>
    /\ exception = ""
    /\ apache_service = ""
    /\ error_log = ""
    /\ output = Text("Inicializando...")
    /\ manual_log = <<>>
    /\ option = ""
    /\ relay = 0
    /\ commands = <<>>
    /\ events = 0

Next ==
    \/ SweepRead
    \/ SweepWrite
    \/ RunAutoChecks
    \/ Mount
    \/ \E selected \in MenuItems : Select(selected)
    \/ Execute
    \/ SudoPrepare
    \/ SudoExecute
    \/ Refresh
    \/ Quit
    \/ Tick

Spec == Init /\ [][Next]_vars

\* the process started with --auto (lines 357-359)
InitAuto == Init /\ args_auto

NextAuto ==
    \/ SweepRead
    \/ SweepWrite
    \/ RunAutoChecks
    \/ Tick

SpecAuto == InitAuto /\ [][NextAuto]_vars

\* the process started with --auto while another process appends to the
\* same journal
InitRace == InitAuto /\ Len(auto_log) <= MenuMaxLines

NextRace ==
    \/ SweepRead
    \/ SweepWrite
    \/ RunAutoChecks
    \/ OtherAppend
    \/ Tick

SpecRace == InitRace /\ [][NextRace]_vars

\* one process alone on its journals, in either mode (lines 349-362)
InitProcess == Init /\ Len(auto_log) <= MenuMaxLines

SpecProcess == InitProcess /\ [][Next]_vars

\* the process started without --auto (lines 360-362)
InitMenu == Init /\ ~args_auto /\ Len(auto_log) <= MenuMaxLines

NextMenu ==
    \/ SweepRead
    \/ SweepWrite
    \/ Mount
    \/ \E selected \in MenuItems : Select(selected)
    \/ Execute
    \/ SudoPrepare
    \/ SudoExecute
    \/ Refresh
    \/ Quit
    \/ Tick

SpecMenu == InitMenu /\ [][NextMenu]_vars

----------------------------------------------------------------------------
(* Severities, as the probes' contracts state them *)

Rank(severity) == CASE severity = "OK" -> 0 [] severity = "WARN" -> 1 [] severity = "CRIT" -> 2

\* the greatest of a set of severities under OK < WARN < CRIT
MaxSeverity(S) == CHOOSE s \in S : \A u \in S : Rank(u) <= Rank(s)

ServiceSeverity(checks) == IF checks.service = "active" THEN "OK" ELSE "CRIT"

PortSeverity(checks) == IF checks.port_80 = "open" THEN "OK" ELSE "CRIT"

HttpSeverity(checks) ==
    IF checks.http = [error |-> "error"] THEN "CRIT"
    ELSE IF checks.http.code >= HTTP_CRIT THEN "CRIT"
    ELSE IF checks.http.code >= HTTP_WARN THEN "WARN"
    ELSE "OK"

OverHard(checks) ==
    checks.cpu > HARD_CEILING \/ checks.ram > HARD_CEILING \/ checks.disk > HARD_CEILING

OverSoft(checks) ==
    checks.cpu > SOFT_CEILING \/ checks.ram > SOFT_CEILING
        \/ checks.disk > DISK_SOFT_CEILING

ResourceSeverity(checks) ==
    IF OverHard(checks) THEN "CRIT" ELSE IF OverSoft(checks) THEN "WARN" ELSE "OK"

\* the automated run has returned, having appended its record
RunReturned == args_auto /\ pc = "done"

\* the record the run appended
Written == auto_log[Len(auto_log)]

\* the step is a call of run_auto_checks
RunStep == pc = "main" /\ args_auto /\ pc' # "main"

\* the step appends exactly one line to the automated journal
AppendsOne ==
    /\ Len(auto_log') = Len(auto_log) + 1
    /\ SubSeq(auto_log', 1, Len(auto_log)) = auto_log

----------------------------------------------------------------------------
(* C1: the final_status of every record run_auto_checks writes is the      *)
(* maximum, under OK < WARN < CRIT, of the severities of its four probes.  *)
C1_FinalStatusIsWorstProbe ==
    \A i \in 1..Len(auto_log) :
        auto_log[i].text = "record" =>
            auto_log[i].final_status =
                MaxSeverity({ServiceSeverity(auto_log[i].checks),
                             PortSeverity(auto_log[i].checks),
                             HttpSeverity(auto_log[i].checks),
                             ResourceSeverity(auto_log[i].checks)})

\* a run whose worst probe is the HTTP probe at WARN, beside a nominal
\* service, port and resources
C1_Witness ==
    /\ RunReturned
    /\ ServiceSeverity(Written.checks) = "OK"
    /\ PortSeverity(Written.checks) = "OK"
    /\ HttpSeverity(Written.checks) = "WARN"
    /\ ResourceSeverity(Written.checks) = "OK"
    /\ Written.final_status = "WARN"

(* C2: for the probe outcomes of every run, applying the four status       *)
(* blocks in any order gives the final_status the run wrote.               *)
C2_OrderIndependent ==
    RunReturned =>
        \A p \in Permutations(1..Len(BlockOrder)) :
            StatusAfter([i \in 1..Len(BlockOrder) |-> BlockOrder[p[i]]], run)
                = Written.final_status

\* a run in which one block raises the status to CRIT and two to WARN
C2_Witness ==
    /\ RunReturned
    /\ ServiceSeverity(Written.checks) = "CRIT"
    /\ PortSeverity(Written.checks) = "OK"
    /\ HttpSeverity(Written.checks) = "WARN"
    /\ ResourceSeverity(Written.checks) = "WARN"

(* C3: a run whose detection finds no service is not ended by that: it     *)
(* goes on to the port probe, and when it returns it has executed all four *)
(* probes and appended exactly one record, whose service check is          *)
(* "not_found" and whose final_status is CRIT.                             *)
C3_NotFoundForcesCrit ==
    [][(RunStep /\ run'.service = None) =>
          /\ Len(probes') >= 2
          /\ exception' \notin {"detect", "service"}
          /\ pc' = "done" =>
                /\ probes' = BlockOrder
                /\ AppendsOne
                /\ auto_log'[Len(auto_log')].text = "record"
                /\ auto_log'[Len(auto_log')].checks.service = "not_found"
                /\ auto_log'[Len(auto_log')].final_status = "CRIT"]_vars

\* no service found, every other probe nominal
C3_Witness ==
    /\ RunReturned
    /\ run.service = None
    /\ Written.checks.service = "not_found"
    /\ PortSeverity(Written.checks) = "OK"
    /\ HttpSeverity(Written.checks) = "OK"
    /\ ResourceSeverity(Written.checks) = "OK"
    /\ Written.final_status = "CRIT"

\* service active, port open and an HTTP status below 400
OthersNominal ==
    /\ run.service # None
    /\ run.active = "active"
    /\ run.port_open
    /\ ~run.r.raised
    /\ run.r.code < HTTP_WARN

(* C4: with the service active, the port open and an HTTP status below     *)
(* 400, the final_status is CRIT exactly when a metric is above 95, WARN   *)
(* exactly when none is above 95 and cpu > 80 or ram > 80 or disk > 90,    *)
(* and OK otherwise.                                                       *)
C4_ResourceCeilings ==
    (RunReturned /\ OthersNominal) =>
        LET hard == run.cpu > HARD_CEILING \/ run.mem > HARD_CEILING
                        \/ run.disk > HARD_CEILING
            soft == run.cpu > SOFT_CEILING \/ run.mem > SOFT_CEILING
                        \/ run.disk > DISK_SOFT_CEILING
        IN  /\ Written.final_status = "CRIT" <=> hard
            /\ Written.final_status = "WARN" <=> (~hard /\ soft)
            /\ Written.final_status = "OK" <=> (~hard /\ ~soft)

\* every metric exactly on a ceiling: cpu on the hard one, ram and disk on
\* their soft ones; only the cpu's soft ceiling is exceeded
C4_Witness ==
    /\ RunReturned
    /\ OthersNominal
    /\ run.cpu = HARD_CEILING
    /\ run.mem = SOFT_CEILING
    /\ run.disk = DISK_SOFT_CEILING
    /\ Written.final_status = "WARN"

\* service active, port open and no resource ceiling exceeded
AllButHttpNominal ==
    /\ run.service # None
    /\ run.active = "active"
    /\ run.port_open
    /\ run.cpu <= SOFT_CEILING
    /\ run.mem <= SOFT_CEILING
    /\ run.disk <= DISK_SOFT_CEILING

(* C5: with every other probe nominal the HTTP probe alone decides:        *)
(* CRIT when the request raises or the code is 500 or more, WARN for a     *)
(* code from 400 to 499, OK below 400; and a code from 400 to 499 leaves a *)
(* CRIT set by the service or port probe in place.                         *)
C5_HttpSeverity ==
    RunReturned =>
        /\ AllButHttpNominal =>
              Written.final_status =
                  IF run.r.raised \/ run.r.code >= HTTP_CRIT THEN "CRIT"
                  ELSE IF run.r.code >= HTTP_WARN THEN "WARN"
                  ELSE "OK"
        /\ ( /\ run.service = None \/ run.active # "active" \/ ~run.port_open
             /\ ~run.r.raised
             /\ run.r.code >= HTTP_WARN
             /\ run.r.code < HTTP_CRIT ) =>
              Written.final_status = "CRIT"

\* a closed port, then a code from 400 to 499: the record stays CRIT
C5_Witness ==
    /\ RunReturned
    /\ run.service # None
    /\ run.active = "active"
    /\ ~run.port_open
    /\ ~run.r.raised
    /\ run.r.code = HTTP_CRIT - 1
    /\ ~OverSoft(Written.checks)
    /\ Written.final_status = "CRIT"

\* the exceptions a single probe of run_auto_checks raises
ProbeFaults == {"detect", "service", "port", "resources"}

(* C6: a fault raised inside one probe of an automated run is captured for *)
(* that probe: the run still executes every probe, appends exactly one     *)
(* record and that record's final_status is CRIT.                          *)
C6_ProbeFaultIsCaptured ==
    [][RunStep =>
          /\ exception' \notin ProbeFaults
          /\ pc' = "done" => (probes' = BlockOrder /\ AppendsOne)
          /\ (pc' = "done" /\ run'.r.raised) =>
                /\ auto_log'[Len(auto_log')].checks.http = [error |-> "error"]
                /\ auto_log'[Len(auto_log')].final_status = "CRIT"]_vars

\* a line that parses as a record: json.loads and fromisoformat accept it
ParsesAsRecord(line) == line.text \in {"record", "aware"}

\* the lines of the file that parse as a record and are at most max_age old
Retained(file, t, max_age) ==
    SelectSeq(file, LAMBDA line : ParsesAsRecord(line) /\ t - line.timestamp <= max_age)

(* C7: a sweep of an existing journal does not fail, and leaves in the     *)
(* file exactly the lines that parse as a record and whose timestamp is at *)
(* most 7 days before the sweep time, unchanged and in their order.        *)
C7_SweepRetainsFresh ==
    [][ /\ (pc = "clean" /\ auto_exists /\ pc' # "clean") =>
              /\ pc' = "rewrite"
              /\ sweep_now' = now
              /\ valid_lines' = Retained(auto_log, now, MAX_AGE)
        /\ (pc = "rewrite" /\ pc' # "rewrite") =>
              /\ pc' = "main"
              /\ auto_log' = valid_lines ]_vars

(* C8: a second sweep right after a sweep, at the same sweep time, leaves  *)
(* the file as the first sweep left it.                                    *)
C8_SweepIdempotent ==
    [][(pc \in {"clean", "rewrite"} /\ pc' \notin {"clean", "rewrite"}) =>
          LET t == IF pc = "clean" THEN now ELSE sweep_now
          IN  clean_log_file(auto_log', t, MAX_AGE) = auto_log']_vars

\* a sweep has rewritten the journal and kept a record
C8_Witness ==
    /\ pc = "main"
    /\ auto_exists
    /\ probes = <<>>
    /\ Len(auto_log) >= 1

----------------------------------------------------------------------------
(* C9: a relay file exists only while a run_sudo call is between its       *)
(* creation and its return: whenever the console is outside run_sudo, on   *)
(* whatever path the call ended, no relay file is on disk.                 *)
C9_RelayOnlyDuringCall == pc # "sudo" => relay = 0

\* the step ends a run_sudo call whose elevated command exited with a
\* status other than zero
NonZeroExit ==
    /\ pc = "sudo"
    /\ Len(commands') = Len(commands) + 1
    /\ commands'[Len(commands')].status # 0

(* C10: when the elevated command exits with a non-zero status, run_sudo   *)
(* raises nothing: the console goes back to idle with no exception, and    *)
(* shows a text for the action.                                            *)
C10_NonZeroExitIsReturned ==
    [][NonZeroExit =>
          /\ pc' = "idle"
          /\ exception' = ""
          /\ output' # output]_vars

----------------------------------------------------------------------------
(* The console: exit, unavailable service, action log *)

\* the selections of the menu other than the exit
Actions == MenuItems \ {"Salir"}

\* nothing was run, asked for or left behind by the step
NothingRun == UNCHANGED <<commands, relay, probes, run>>

\* both journals are left as they were by the step
JournalsKept == UNCHANGED <<auto_log, auto_exists, manual_log>>

\* C11: the selection of "Salir", with a service resolved or with none, ends
\* the console without a line of the action log and without any query, probe
\* or privileged command; once the console has exited no action is dispatched.
C11_ExitRunsNothing ==
    [][/\ Select("Salir") =>
            pc' = "exited" /\ option' = "" /\ NothingRun /\ JournalsKept
       /\ pc = "exited" =>
            pc' = "exited" /\ option' = "" /\ NothingRun /\ JournalsKept]_vars

\* "Salir" was selected with a service resolved: the one event of the console
\* left no line and no command behind
C11_Witness ==
    /\ pc = "exited"
    /\ events = 1
    /\ apache_service \in {"apache2", "httpd"}
    /\ manual_log = <<>>
    /\ commands = <<>>

\* C12: with no service resolved at start-up, every selection other than the
\* exit shows the fixed text "Apache no disponible" and changes nothing else:
\* no line of the action log, no command, probe or privileged call, no relay
\* file.
C12_UnavailableRunsNothing ==
    [][\A selected \in Actions :
         (apache_service = None /\ Select(selected)) =>
            /\ output' = Text("Apache no disponible")
            /\ pc' = "idle"
            /\ option' = ""
            /\ NothingRun
            /\ JournalsKept
            /\ UNCHANGED <<exception, apache_service, error_log>>]_vars

\* the console used up to its last event with no service resolved
C12_Witness ==
    /\ apache_service = None
    /\ pc = "idle"
    /\ events = MaxEvents
    /\ output = Text("Apache no disponible")
    /\ manual_log = <<>>
    /\ commands = <<>>
    /\ relay = 0

\* the entries of commands the action of an option leaves when it is executed
\* once
ExecutedOnce(selected, before, after) ==
    IF selected = "Recursos y HTTP"
    THEN /\ Len(after) = Len(before) + 2
         /\ SubSeq(after, 1, Len(before)) = before
         /\ after[Len(before) + 1].via = "requests"
         /\ after[Len(before) + 2].via = "psutil"
    ELSE /\ Len(after) = Len(before) + 1
         /\ SubSeq(after, 1, Len(before)) = before
         /\ after[Len(after)].cmd = CommandOf(selected)

\* C13: a selection other than the exit, with a service resolved and the
\* action log writable, appends exactly one line carrying the selected label,
\* before anything of the action runs; the action that then runs is the one
\* of the last line of the log, and it runs at most once.
C13_LoggedBeforeAction ==
    [][/\ \A selected \in Actions :
            (apache_service # None /\ Select(selected) /\ pc' # "crashed") =>
               /\ manual_log' = Append(manual_log, ManualLine(now, selected))
               /\ pc' = "dispatching"
               /\ option' = selected
               /\ NothingRun
       /\ pc \in {"dispatching", "sudo"} =>
            /\ manual_log' = manual_log
            /\ manual_log # <<>>
            /\ manual_log[Len(manual_log)].action = option
            /\ commands' = commands \/ ExecutedOnce(option, commands, commands')
            /\ pc' \notin {"dispatching", "sudo"} \/ commands' = commands
       /\ relay' # relay => pc \in {"dispatching", "sudo"}]_vars

\* the line of the selection is in the log and nothing of its action has run
C13_Witness ==
    /\ pc = "dispatching"
    /\ option = "Restart Apache"
    /\ manual_log = <<ManualLine(now, "Restart Apache")>>
    /\ commands = <<>>
    /\ relay = 0

\* C14: a failure of the append to the action log does not end the console:
\* no selection made while the console is idle leaves it crashed.
C14_LogFailureDoesNotCrash ==
    [][(pc = "idle" /\ events' = events + 1) => pc' # "crashed"]_vars

----------------------------------------------------------------------------
(* The journals of one process *)

\* the lines of before are the first lines of after, in the same order
IsPrefix(before, after) ==
    /\ Len(before) <= Len(after)
    /\ SubSeq(after, 1, Len(before)) = before

\* C15: within one process only the rewrite of the retention sweep removes
\* lines from a journal. Every other step leaves the lines of both journals
\* in place and in order and adds at most one; an automated run that returns
\* adds exactly one line to the automated journal, a dispatched action
\* exactly one line to the action log, and the action log never shrinks.
C15_OnlySweepRemoves ==
    [][/\ pc # "rewrite" =>
            IsPrefix(auto_log, auto_log') /\ Len(auto_log') <= Len(auto_log) + 1
       /\ IsPrefix(manual_log, manual_log')
       /\ Len(manual_log') <= Len(manual_log) + 1
       /\ (pc = "main" /\ pc' = "done") =>
            Len(auto_log') = Len(auto_log) + 1 /\ manual_log' = manual_log
       /\ (pc = "idle" /\ pc' = "dispatching") =>
            Len(manual_log') = Len(manual_log) + 1 /\ auto_log' = auto_log
       /\ pc \in {"dispatching", "sudo"} => JournalsKept]_vars

\* an automated run returned and its record follows the line the sweep kept
C15_Witness ==
    /\ pc = "done"
    /\ Len(auto_log) = 2
    /\ auto_log[1] = RecordLine(MaxStamp, OldChecks, "OK")
    /\ auto_log[2].timestamp = now

----------------------------------------------------------------------------
(* Two processes on the automated journal *)

\* the lines of the sequence
Range(seq) == {seq[i] : i \in 1..Len(seq)}

\* the lines the file held when the sweep read it: those of the file but
\* the ones appended since
ReadBySweep == SubSeq(auto_log, 1, Len(auto_log) - Len(unseen))

\* the step is the rewrite of the sweep (lines 147-148)
RewriteStep == pc = "rewrite" /\ pc' = "main"

\* C16: no lock orders the processes that use the journal, so a record another
\* process appends between the read of the sweep and its rewrite is absent
\* after the rewrite: the file holds exactly the lines the sweeping process
\* kept, which is neither the result of the append followed by the sweep nor
\* that of the sweep followed by the append.
C16_AppendInSweepIsLost ==
    [][RewriteStep =>
         /\ auto_log' = valid_lines
         /\ auto_log' = ValidLines(ReadBySweep, sweep_now, MAX_AGE)
         /\ unseen # <<>> =>
              /\ auto_log = ReadBySweep \o unseen
              /\ auto_log' # ValidLines(auto_log, sweep_now, MAX_AGE)
              /\ auto_log' # valid_lines \o unseen]_vars

\* the rewrite has dropped the record another process appended after the read
C16_Witness ==
    /\ pc = "main"
    /\ unseen # <<>>
    /\ Range(unseen) \cap Range(auto_log) = {}
    /\ auto_log # <<>>

----------------------------------------------------------------------------
(* The dispatcher *)

\* the states of the dispatcher: idle from the mount on, dispatching while
\* handle_option runs, exited when the App has ended
Dispatcher ==
    CASE pc = "idle" -> "Idle"
      [] pc \in {"dispatching", "sudo"} -> "Dispatching"
      [] pc \in {"exited", "crashed"} -> "Exited"
      [] OTHER -> "Starting"

\* the elevated commands that are running
ElevatedRunning == IF pc = "sudo" THEN 1 ELSE 0

\* C17: the dispatcher has at most one action in flight. A selection or the
\* refresh key is handled only while the dispatcher is idle with no option
\* in flight, an option is in flight exactly while the dispatcher is
\* dispatching, and at most one relay file and one elevated command exist at
\* any time.
C17_OneActionInFlight ==
    [][/\ (option # "") <=> (Dispatcher = "Dispatching")
       /\ relay <= 1
       /\ ElevatedRunning <= relay
       /\ relay = 1 => Dispatcher \in {"Dispatching", "Exited"}
       /\ events' # events => Dispatcher = "Idle" /\ option = ""
       /\ (option' # option /\ option' # "") => Dispatcher = "Idle"]_vars

\* a second privileged action is in flight after the first one has returned
C17_Witness ==
    /\ pc = "sudo"
    /\ relay = 1
    /\ option \in SudoOptions
    /\ Len(manual_log) = 2
    /\ Len(commands) = 1
    /\ commands[1].via = "run_sudo"

\* C18: the lines of the action log are in the order in which their actions
\* were dispatched: the log changes only when a selection is dispatched, and
\* the line of that selection goes after every line the log holds.
C18_LogInDispatchOrder ==
    [][manual_log' # manual_log =>
         /\ Dispatcher = "Idle"
         /\ Dispatcher' = "Dispatching"
         /\ manual_log' = manual_log \o <<ManualLine(now, option')>>]_vars

\* two actions dispatched one after the other, at different times
C18_Witness ==
    /\ Len(manual_log) = 2
    /\ manual_log[1].action = "Uptime"
    /\ manual_log[2].action = "Reload Apache"
    /\ manual_log[1].timestamp < manual_log[2].timestamp

----------------------------------------------------------------------------
(* Reload, restart and refresh *)

\* the texts that announce a reload or a restart as done (lines 309, 312)
SuccessTexts == {Text("Apache recargado"), Text("Apache reiniciado")}

\* the systemctl command a success text announces
Announced(text) ==
    IF text = Text("Apache recargado") THEN "systemctl reload" ELSE "systemctl restart"

\* the step puts a success text on the panel: it writes one, or it is the
\* return of an action with one on the panel
ShowsSuccess ==
    /\ output' \in SuccessTexts
    /\ output' # output \/ (Dispatcher = "Dispatching" /\ Dispatcher' = "Idle")

\* the step is the end of an elevated command that failed
ElevatedFailed ==
    /\ pc = "sudo"
    /\ commands' # commands
    /\ commands'[Len(commands')].status # 0

\* C19: the console shows "Apache recargado" or "Apache reiniciado" only
\* when the elevated systemctl command of that selection has just exited with
\* status zero; a reload or restart whose command failed never puts a success
\* text on the panel.
C19_SuccessOnlyAfterZeroExit ==
    [][/\ ShowsSuccess =>
            /\ pc = "sudo"
            /\ CommandOf(option) = Announced(output')
            /\ commands' = Append(commands, Ran("run_sudo", Announced(output'), 0))
       /\ ElevatedFailed => ~ShowsSuccess /\ output' = output]_vars

\* a reload was announced after its command exited with zero
C19_Witness ==
    /\ pc = "idle"
    /\ output = Text("Apache recargado")
    /\ commands = <<Ran("run_sudo", "systemctl reload", 0)>>
    /\ relay = 0

\* C20: the refresh leaves both journals and the credential path alone: it
\* appends no line to the action log, never goes through run_sudo and creates
\* no relay file, although with a service resolved it runs one query of the
\* status of the service through run_cmd.
C20_RefreshLeavesJournals ==
    [][Refresh =>
         /\ JournalsKept
         /\ UNCHANGED <<relay, pc, option, exception, probes, run>>
         /\ IF apache_service \in {"apache2", "httpd"}
              THEN /\ Len(commands') = Len(commands) + 1
                   /\ IsPrefix(commands, commands')
                   /\ commands'[Len(commands')].via = "run_cmd"
                   /\ commands'[Len(commands')].cmd = "systemctl status"
              ELSE commands' = commands]_vars

\* the console refreshed with a service resolved: a query of the status was
\* run and no action was logged
C20_Witness ==
    /\ pc = "idle"
    /\ events = 1
    /\ apache_service \in {"apache2", "httpd"}
    /\ commands = <<Ran("run_cmd", "systemctl status", 0)>>
    /\ manual_log = <<>>
    /\ relay = 0

====
